---- MODULE Spec2Model ----
(***************************************************************************)
(* Model of examples/openthread/ot_power_save/main/esp_ot_power_save.c:    *)
(* the worker task ot_task_worker, the dataset builder                     *)
(* create_config_network and the hex decoder hex_string_to_binary with     *)
(* its digit mapper hex_digit_to_int.                                      *)
(*                                                                         *)
(* Characters are their ASCII codes, so that the range tests of            *)
(* hex_digit_to_int are the comparisons the C code performs.  A C string   *)
(* is a record [chars, pad, len]: the characters at indices                *)
(* 0 .. Len(chars)-1 are chars, the ones from there up to len-1 are all    *)
(* pad, and index len holds the terminator NUL.  Strings of 65536 and more *)
(* characters are written this way without enumerating them.               *)
(***************************************************************************)
EXTENDS Integers, Sequences, FiniteSets, TLC

\* Longest fully enumerated dataset string.
MaxLen == 4

\* Size of otOperationalDatasetTlvs.mTlvs (OpenThread's dataset.h), the
\* constant create_config_network compares against.
OT_OPERATIONAL_DATASET_MAX_LENGTH == 254

\* The value of CONFIG_OPENTHREAD_NETWORK_DATASET (212 characters).
CONFIG_OPENTHREAD_NETWORK_DATASET ==
    <<
       48, 101, 48, 56, 48, 48, 48, 48, 48, 48, 48, 48, 48, 48, 48, 49, 48, 48, 48, 48,
       48, 48, 48, 51, 48, 48, 48, 48, 48, 98, 51, 53, 48, 54, 48, 48, 48, 52, 48, 48,
       49, 102, 102, 102, 101, 48, 48, 50, 48, 56, 52, 99, 49, 52, 98, 52, 100, 50, 54, 56,
       53, 53, 102, 99, 100, 48, 48, 55, 48, 56, 102, 100, 102, 55, 101, 57, 49, 56, 101, 98,
       54, 50, 101, 50, 97, 57, 48, 53, 49, 48, 55, 99, 97, 48, 101, 55, 53, 97, 54, 101,
       97, 100, 52, 98, 57, 54, 48, 99, 102, 101, 48, 55, 51, 51, 56, 54, 57, 52, 51, 54,
       48, 53, 48, 51, 48, 102, 52, 102, 55, 48, 54, 53, 54, 101, 53, 52, 54, 56, 55, 50,
       54, 53, 54, 49, 54, 52, 50, 100, 54, 49, 54, 54, 51, 49, 51, 54, 48, 49, 48, 50,
       97, 102, 49, 54, 48, 52, 49, 48, 50, 98, 57, 48, 56, 52, 98, 50, 54, 99, 57, 97,
       55, 100, 49, 48, 97, 49, 97, 55, 50, 57, 98, 102, 99, 50, 101, 56, 52, 101, 97, 48,
       48, 99, 48, 52, 48, 50, 97, 48, 102, 55, 102, 56
    >>

\* "4f70656e5468726561642d616631360102", the network-name TLV inside the
\* configured dataset (characters 126 .. 159 of it).
NetworkNameHex ==
    <<
       52, 102, 55, 48, 54, 53, 54, 101, 53, 52, 54, 56, 55, 50, 54, 53, 54, 49, 54, 52,
       50, 100, 54, 49, 54, 54, 51, 49, 51, 54, 48, 49, 48, 50
    >>

\* The characters of the enumerated strings: '/', '0', '9', 'A', 'F', 'G',
\* 'a', 'f' (both ends of each digit range and two characters outside).
Alphabet == {47, 48, 57, 65, 70, 71, 97, 102}

\* Padding characters of the long strings: '0' (a digit) and 'G' (none).
PadChars == {48, 71}

\* Lengths of the long strings: around the limit 2 * 254 and around 2^16.
PadLens == {161, 507, 508, 509, 510, 65535, 65536, 65537, 65538}

Str(cs) == [chars |-> cs, pad |-> 0, len |-> Len(cs)]

Padded(c, n) == [chars |-> <<>>, pad |-> c, len |-> n]

ShortStrings == UNION {[1..n -> Alphabet] : n \in 0..MaxLen}

\* The values the configuration string may have.
Datasets ==
    {Str(cs) : cs \in ShortStrings}
        \cup {Padded(c, n) : c \in PadChars, n \in PadLens}
        \cup {Str(CONFIG_OPENTHREAD_NETWORK_DATASET), Str(NetworkNameHex)}

strlen(s) == s.len

\* s[idx] of the C string s (idx counted from 0).
CharAt(s, idx) ==
    IF idx < Len(s.chars) THEN s.chars[idx + 1]
    ELSE IF idx < s.len THEN s.pad
    ELSE 0

Uint16(x) == x % 65536

Uint8(x) == x % 256

VARIABLES
    dataset,          \* the string CONFIG_OPENTHREAD_NETWORK_DATASET
    pc,               \* position of the worker task
    dataset_str_len,  \* create_config_network's uint16_t local
    num_char,         \* hex_string_to_binary's local
    i,                \* hex_string_to_binary's loop index
    ret,              \* value returned by hex_string_to_binary
    retAt,            \* source line of the return taken (0: not returned)
    mTlvs,            \* datasetTlvs.mTlvs: the bytes written so far, by index
    mLength,          \* datasetTlvs.mLength
    hiRead,           \* highest index of hex_string read by the decoder (-1: none)
    hiWrite,          \* highest index of buf written by the decoder (-1: none)
    overrun,          \* a write went past the end of mTlvs
    calls,            \* the calls made so far, with their results
    log               \* the message of the last ESP_LOGE

vars == <<dataset, pc, dataset_str_len, num_char, i, ret, retAt, mTlvs, mLength,
          hiRead, hiWrite, overrun, calls, log>>

OT_ERROR_NONE == 0

\* What an OpenThread call may return: OT_ERROR_NONE or some other otError.
OtErrors == {OT_ERROR_NONE, OT_ERROR_NONE + 1}

Call(fn, res) == [fn |-> fn, res |-> res]

Max(a, b) == IF a >= b THEN a ELSE b

(***************************************************************************)
(* hex_digit_to_int and the expressions of hex_string_to_binary            *)
(***************************************************************************)
\* Faulty variant: the lowercase branch lacks the offset 10.
hex_digit_to_int_LowerNoOffset(hex) ==
    IF 65 <= hex /\ hex <= 70 THEN 10 + hex - 65
    ELSE IF 97 <= hex /\ hex <= 102 THEN hex - 97
    ELSE IF 48 <= hex /\ hex <= 57 THEN hex - 48
    ELSE -1

\* Faulty variant: the lowercase range stops before 'f'.
hex_digit_to_int_ExclusiveF(hex) ==
    IF 65 <= hex /\ hex <= 70 THEN 10 + hex - 65
    ELSE IF 97 <= hex /\ hex < 102 THEN 10 + hex - 97
    ELSE IF 48 <= hex /\ hex <= 57 THEN hex - 48
    ELSE -1

hex_digit_to_int(hex) ==
    IF 65 <= hex /\ hex <= 70 THEN 10 + hex - 65
    ELSE IF 97 <= hex /\ hex <= 102 THEN 10 + hex - 97
    ELSE IF 48 <= hex /\ hex <= 57 THEN hex - 48
    ELSE -1

\* Faulty variant: a remainder is compared with 2, which it never equals.
OddLength_Never(n) == n % 2 = 2

\* num_char % 2 == true
OddLength(n) == n % 2 = 1

\* Faulty variant: only the first digit of the pair is tested.
InvalidDigit_FirstOnly(digit0, digit1) == digit0 < 0

\* digit0 < 0 || digit1 < 0
InvalidDigit(digit0, digit1) == digit0 < 0 \/ digit1 < 0

\* Faulty variant: the high nibble is shifted by 3 bits.
PackByte_Shift3(digit0, digit1) == Uint8(digit0 * 8 + digit1)

\* (digit0 << 4) + digit1, stored in a uint8_t
PackByte(digit0, digit1) == Uint8(digit0 * 16 + digit1)

\* Faulty variant: the loop runs once more, at idx = n.
LoopGuard_Inclusive(idx, n) == idx <= n

\* i < num_char
LoopGuard(idx, n) == idx < n

\* Faulty variant: the count is one too high.
ByteCount_PlusOne(n) == n \div 2 + 1

\* return num_char/2
ByteCount(n) == n \div 2

(***************************************************************************)
(* The tests of create_config_network                                      *)
(***************************************************************************)
\* dataset_str_len > (OT_OPERATIONAL_DATASET_MAX_LENGTH * 2)
DatasetTooLong(len) == len > OT_OPERATIONAL_DATASET_MAX_LENGTH * 2

\* Faulty variant: the unsigned length is tested for being negative.
DatasetDecodeFailed_Negative(len) == len < 0

\* !datasetTlvs.mLength
DatasetDecodeFailed(len) == len = 0

Init ==
    /\ dataset \in Datasets
    /\ pc = "ot_task_worker"
    /\ dataset_str_len = 0
    /\ num_char = 0
    /\ i = 0
    /\ ret = 0
    /\ retAt = 0
    /\ mTlvs = <<>>
    /\ mLength = 0
    /\ hiRead = -1
    /\ hiWrite = -1
    /\ overrun = FALSE
    /\ calls = <<>>
    /\ log = ""

Abort(msg) ==
    /\ pc' = "aborted"
    /\ log' = msg

\* ot_task_worker up to the call of create_config_network: the stack and
\* the netif are initialised, ESP_ERROR_CHECK and assert abort on failure.
OtTaskWorkerInit ==
    /\ pc = "ot_task_worker"
    /\ \E ok \in BOOLEAN :
          IF ok THEN pc' = "create_config_network" /\ log' = log
          ELSE Abort("ESP_ERROR_CHECK failed")
    /\ UNCHANGED <<dataset, dataset_str_len, num_char, i, ret, retAt, mTlvs, mLength,
                   hiRead, hiWrite, overrun, calls>>

\* create_config_network: the locals and otLinkSetPollPeriod.
SetPollPeriod ==
    /\ pc = "create_config_network"
    /\ dataset_str_len' = Uint16(strlen(dataset))
    /\ \E err \in OtErrors :
          /\ calls' = Append(calls, Call("otLinkSetPollPeriod", err))
          /\ IF err # OT_ERROR_NONE
             THEN Abort("Failed to set OpenThread pollperiod.")
             ELSE pc' = "otThreadSetLinkMode" /\ log' = log
    /\ UNCHANGED <<dataset, num_char, i, ret, retAt, mTlvs, mLength, hiRead, hiWrite,
                   overrun>>

SetLinkMode ==
    /\ pc = "otThreadSetLinkMode"
    /\ \E err \in OtErrors :
          /\ calls' = Append(calls, Call("otThreadSetLinkMode", err))
          /\ IF err # OT_ERROR_NONE
             THEN Abort("Failed to set OpenThread linkmode.")
             ELSE pc' = "length_check" /\ log' = log
    /\ UNCHANGED <<dataset, dataset_str_len, num_char, i, ret, retAt, mTlvs, mLength,
                   hiRead, hiWrite, overrun>>

LengthCheck ==
    /\ pc = "length_check"
    /\ IF DatasetTooLong(dataset_str_len)
       THEN Abort("dataset length error.")
       ELSE pc' = "hex_string_to_binary" /\ log' = log
    /\ UNCHANGED <<dataset, dataset_str_len, num_char, i, ret, retAt, mTlvs, mLength,
                   hiRead, hiWrite, overrun, calls>>

\* hex_string_to_binary: strlen and the test of the length's parity.
HexEntry ==
    /\ pc = "hex_string_to_binary"
    /\ num_char' = strlen(dataset)
    /\ i' = 0
    /\ IF OddLength(num_char')
       THEN /\ ret' = 0
            /\ retAt' = 61
            /\ pc' = "hex_returned"
       ELSE /\ pc' = "hex_loop"
            /\ UNCHANGED <<ret, retAt>>
    /\ UNCHANGED <<dataset, dataset_str_len, mTlvs, mLength, hiRead, hiWrite, overrun,
                   calls, log>>

\* One pass of the loop body.  A store past the end of mTlvs is undefined
\* behaviour: the byte lands outside the array, and the task either goes on
\* or crashes.
HexLoopBody ==
    /\ pc = "hex_loop"
    /\ LoopGuard(i, num_char)
    /\ hiRead' = Max(hiRead, i + 1)
    /\ LET digit0 == hex_digit_to_int(CharAt(dataset, i))
           digit1 == hex_digit_to_int(CharAt(dataset, i + 1))
       IN  IF InvalidDigit(digit0, digit1)
           THEN /\ ret' = 0
                /\ retAt' = 69
                /\ pc' = "hex_returned"
                /\ UNCHANGED <<i, mTlvs, hiWrite, overrun>>
           ELSE /\ hiWrite' = Max(hiWrite, i \div 2)
                /\ i' = i + 2
                /\ UNCHANGED <<ret, retAt>>
                /\ IF i \div 2 < OT_OPERATIONAL_DATASET_MAX_LENGTH
                   THEN /\ mTlvs' = (i \div 2 :> PackByte(digit0, digit1)) @@ mTlvs
                        /\ UNCHANGED <<overrun, pc>>
                   ELSE /\ overrun' = TRUE
                        /\ mTlvs' = mTlvs
                        /\ \E crash \in BOOLEAN :
                              pc' = IF crash THEN "crashed" ELSE pc
    /\ UNCHANGED <<dataset, dataset_str_len, num_char, mLength, calls, log>>

HexLoopExit ==
    /\ pc = "hex_loop"
    /\ ~LoopGuard(i, num_char)
    /\ ret' = ByteCount(num_char)
    /\ retAt' = 74
    /\ pc' = "hex_returned"
    /\ UNCHANGED <<dataset, dataset_str_len, num_char, i, mTlvs, mLength, hiRead,
                   hiWrite, overrun, calls, log>>

\* datasetTlvs.mLength = hex_string_to_binary(...) and the test of it.
\* mLength is a uint8_t.
StoreLength ==
    /\ pc = "hex_returned"
    /\ mLength' = Uint8(ret)
    /\ calls' = Append(calls, Call("hex_string_to_binary", ret))
    /\ IF DatasetDecodeFailed(mLength')
       THEN Abort("Failed convert configured dataset")
       ELSE pc' = "otDatasetSetActiveTlvs" /\ log' = log
    /\ UNCHANGED <<dataset, dataset_str_len, num_char, i, ret, retAt, mTlvs, hiRead,
                   hiWrite, overrun>>

SetActiveTlvs ==
    /\ pc = "otDatasetSetActiveTlvs"
    /\ \E err \in OtErrors :
          /\ calls' = Append(calls, Call("otDatasetSetActiveTlvs", err))
          /\ IF err # OT_ERROR_NONE
             THEN Abort("Failed to set OpenThread otDatasetSetActiveTlvs.")
             ELSE pc' = "otIp6SetEnabled" /\ log' = log
    /\ UNCHANGED <<dataset, dataset_str_len, num_char, i, ret, retAt, mTlvs, mLength,
                   hiRead, hiWrite, overrun>>

Ip6SetEnabled ==
    /\ pc = "otIp6SetEnabled"
    /\ \E err \in OtErrors :
          /\ calls' = Append(calls, Call("otIp6SetEnabled", err))
          /\ IF err # OT_ERROR_NONE
             THEN Abort("Failed to enable OpenThread IP6 link")
             ELSE pc' = "otThreadSetEnabled" /\ log' = log
    /\ UNCHANGED <<dataset, dataset_str_len, num_char, i, ret, retAt, mTlvs, mLength,
                   hiRead, hiWrite, overrun>>

ThreadSetEnabled ==
    /\ pc = "otThreadSetEnabled"
    /\ \E err \in OtErrors :
          /\ calls' = Append(calls, Call("otThreadSetEnabled", err))
          /\ IF err # OT_ERROR_NONE
             THEN Abort("Failed to enable OpenThread")
             ELSE pc' = "launch_mainloop" /\ log' = log
    /\ UNCHANGED <<dataset, dataset_str_len, num_char, i, ret, retAt, mTlvs, mLength,
                   hiRead, hiWrite, overrun>>

\* ot_task_worker after create_config_network returned.
LaunchMainloop ==
    /\ pc = "launch_mainloop"
    /\ pc' = "mainloop"
    /\ calls' = Append(calls, Call("esp_openthread_launch_mainloop", 0))
    /\ UNCHANGED <<dataset, dataset_str_len, num_char, i, ret, retAt, mTlvs, mLength,
                   hiRead, hiWrite, overrun, log>>

\* The main loop returned: clean up and delete the task.
CleanUp ==
    /\ pc = "mainloop"
    /\ pc' = "deleted"
    /\ UNCHANGED <<dataset, dataset_str_len, num_char, i, ret, retAt, mTlvs, mLength,
                   hiRead, hiWrite, overrun, calls, log>>

Next ==
    \/ OtTaskWorkerInit
    \/ SetPollPeriod
    \/ SetLinkMode
    \/ LengthCheck
    \/ HexEntry
    \/ HexLoopBody
    \/ HexLoopExit
    \/ StoreLength
    \/ SetActiveTlvs
    \/ Ip6SetEnabled
    \/ ThreadSetEnabled
    \/ LaunchMainloop
    \/ CleanUp

Spec == Init /\ [][Next]_vars

(***************************************************************************)
(* Vocabulary of the properties.  These definitions state what the         *)
(* specification expects; none of them is used by the actions above.       *)
(***************************************************************************)
HexChars == (48..57) \cup (65..70) \cup (97..102)

\* nibble: '0'-'9' to 0-9, 'A'-'F' and 'a'-'f' to 10-15.
Nibble(c) ==
    IF c \in 48..57 THEN c - 48
    ELSE IF c \in 65..70 THEN c - 55
    ELSE c - 87

\* The characters occurring in s.
CharsOf(s) ==
    {s.chars[j] : j \in 1..Len(s.chars)}
        \cup (IF s.len > Len(s.chars) THEN {s.pad} ELSE {})

AllHex(s) == CharsOf(s) \subseteq HexChars

EvenLen(s) == s.len % 2 = 0

PairValid(s, k) ==
    /\ CharAt(s, 2 * k) \in HexChars
    /\ CharAt(s, 2 * k + 1) \in HexChars

\* The byte the pair k of s stands for.
PairByte(s, k) == 16 * Nibble(CharAt(s, 2 * k)) + Nibble(CharAt(s, 2 * k + 1))

\* The first pair of s holding a character that is no hex digit.
FirstInvalidPair(s) ==
    CHOOSE k \in 0..(s.len \div 2 - 1) :
        /\ ~PairValid(s, k)
        /\ \A m \in 0..(k - 1) : PairValid(s, m)

ToLower(c) == IF c \in 65..90 THEN c + 32 ELSE c

ToUpper(c) == IF c \in 97..122 THEN c - 32 ELSE c

\* The lowercase and the uppercase hex digit of a nibble value.
LowerDigit(v) == IF v < 10 THEN 48 + v ELSE 97 + v - 10

UpperDigit(v) == IF v < 10 THEN 48 + v ELSE 65 + v - 10

Returned == retAt # 0

\* The decoder's caller gave it room for strlen/2 bytes.
BufferFits(s) == s.len \div 2 <= OT_OPERATIONAL_DATASET_MAX_LENGTH

\* The positions in calls of the calls of fn.
Pos(fn) == {j \in 1..Len(calls) : calls[j].fn = fn}

\* Bytes 4F 70 65 6E 54 68 72 65 61 64 2D 61 66 31 36 01 02.
NetworkNameBytes ==
    <<79, 112, 101, 110, 84, 104, 114, 101, 97, 100, 45, 97, 102, 49, 54, 1, 2>>

(***************************************************************************)
(* Properties                                                              *)
(***************************************************************************)

\* C1: for an even-length string of hex digits (any case) the decoder
\* returns strlen/2 and leaves output[k] = 16*nibble(s[2k]) + nibble(s[2k+1])
\* for every k below strlen/2, each byte in 0..255 (the buffer having room
\* for strlen/2 bytes, as the decoder's contract requires).
C1_DecodesValidPairs ==
    (Returned /\ EvenLen(dataset) /\ AllHex(dataset) /\ BufferFits(dataset)) =>
        /\ retAt = 74
        /\ ret = strlen(dataset) \div 2
        /\ DOMAIN mTlvs = 0..(ret - 1)
        /\ \A k \in 0..(ret - 1) :
              /\ mTlvs[k] = PairByte(dataset, k)
              /\ mTlvs[k] \in 0..255

\* "aF90" decoded to AF 90.
C1_Witness ==
    /\ Returned
    /\ dataset = Str(<<97, 70, 57, 48>>)
    /\ ret = 2
    /\ mTlvs[0] = 175
    /\ mTlvs[1] = 144

\* C2 (as claimed): whenever create_config_network reaches the call of
\* otDatasetSetActiveTlvs, mLength is in 1..OT_OPERATIONAL_DATASET_MAX_LENGTH,
\* equals strlen(dataset)/2, and the first mLength bytes of mTlvs are the
\* decoded bytes of the dataset string, whatever the dataset string is.
C2_HandsOverDecodedDataset ==
    pc = "otDatasetSetActiveTlvs" =>
        /\ mLength \in 1..OT_OPERATIONAL_DATASET_MAX_LENGTH
        /\ mLength = strlen(dataset) \div 2
        /\ \A k \in 0..(mLength - 1) :
              /\ k \in DOMAIN mTlvs
              /\ mTlvs[k] = PairByte(dataset, k)

\* C3 (as claimed): for every dataset string longer than
\* 2 * OT_OPERATIONAL_DATASET_MAX_LENGTH, lengths of 65536 and more included,
\* hex_string_to_binary is never run: create_config_network aborts with
\* "dataset length error." first.
C3_TooLongNeverDecoded ==
    strlen(dataset) > 2 * OT_OPERATIONAL_DATASET_MAX_LENGTH =>
        /\ pc # "hex_loop"
        /\ ~Returned
        /\ hiRead = -1
        /\ Pos("hex_string_to_binary") = {}

\* C4: when the decoder returned 0 (odd length, invalid digit or empty
\* string) create_config_network aborts with "Failed convert configured
\* dataset" and neither otDatasetSetActiveTlvs, otIp6SetEnabled,
\* otThreadSetEnabled nor the main loop is reached; otDatasetSetActiveTlvs
\* is called only right after the length check passed and the decoder
\* returned a nonzero count, otIp6SetEnabled only right after
\* otDatasetSetActiveTlvs succeeded, otThreadSetEnabled only right after
\* otIp6SetEnabled succeeded, and the main loop only after that succeeded.
C4_NoStartupWithoutDataset ==
    /\ (Returned /\ ret = 0) =>
          /\ pc \in {"hex_returned", "aborted"}
          /\ pc = "aborted" => log = "Failed convert configured dataset"
          /\ Pos("otDatasetSetActiveTlvs") = {}
          /\ Pos("otIp6SetEnabled") = {}
          /\ Pos("otThreadSetEnabled") = {}
          /\ Pos("esp_openthread_launch_mainloop") = {}
    /\ pc \in {"otIp6SetEnabled", "otThreadSetEnabled", "launch_mainloop",
               "mainloop", "deleted"} =>
          \E j \in Pos("otDatasetSetActiveTlvs") : calls[j].res = OT_ERROR_NONE
    /\ pc \in {"mainloop", "deleted"} =>
          /\ \E j \in Pos("otIp6SetEnabled") : calls[j].res = OT_ERROR_NONE
          /\ \E j \in Pos("otThreadSetEnabled") : calls[j].res = OT_ERROR_NONE
    /\ \A j \in Pos("otDatasetSetActiveTlvs") :
          /\ j > 1
          /\ calls[j - 1].fn = "hex_string_to_binary"
          /\ calls[j - 1].res # 0
          /\ ~DatasetTooLong(dataset_str_len)
    /\ \A j \in Pos("otIp6SetEnabled") :
          j > 1 /\ calls[j - 1] = Call("otDatasetSetActiveTlvs", OT_ERROR_NONE)
    /\ \A j \in Pos("otThreadSetEnabled") :
          j > 1 /\ calls[j - 1] = Call("otIp6SetEnabled", OT_ERROR_NONE)
    /\ \A j \in Pos("esp_openthread_launch_mainloop") :
          j > 1 /\ calls[j - 1] = Call("otThreadSetEnabled", OT_ERROR_NONE)

\* The empty dataset string: decoded to 0 bytes, then aborted.
C4_Witness ==
    /\ strlen(dataset) = 0
    /\ retAt = 74
    /\ pc = "aborted"
    /\ log = "Failed convert configured dataset"
    /\ Len(calls) = 3

\* C5: for an odd-length string, whatever its characters, the decoder
\* returns the failure value from the length test and writes no byte.
C5_OddLengthWritesNothing ==
    ~EvenLen(dataset) =>
        /\ DOMAIN mTlvs = {}
        /\ hiWrite = -1
        /\ hiRead = -1
        /\ pc # "hex_loop"
        /\ Returned => (retAt = 61 /\ ret = 0)

\* The single character "A", and a string of 161 characters.
C5_Witness ==
    /\ Returned
    /\ ret = 0
    /\ dataset \in {Str(<<65>>), Padded(48, 161)}

\* C6: for an even-length string holding a character that is no hex digit,
\* the decoder returns the failure value at the first pair k with such a
\* character: output[0..k-1] hold the bytes of the earlier pairs, no byte
\* from k on is written, and no character after pair k is read.
C6_FailsAtFirstInvalidPair ==
    (Returned /\ EvenLen(dataset) /\ ~AllHex(dataset)) =>
        LET k == FirstInvalidPair(dataset)
        IN  k <= OT_OPERATIONAL_DATASET_MAX_LENGTH =>
               /\ retAt = 69
               /\ ret = 0
               /\ i = 2 * k
               /\ DOMAIN mTlvs = 0..(k - 1)
               /\ \A m \in 0..(k - 1) : mTlvs[m] = PairByte(dataset, m)
               /\ hiWrite = k - 1
               /\ hiRead = 2 * k + 1

\* "0fG0": pair 0 written as 0F, pair 1 refused.
C6_Witness ==
    /\ retAt = 69
    /\ dataset = Str(<<48, 102, 71, 48>>)
    /\ DOMAIN mTlvs = {0}
    /\ mTlvs[0] = 15

\* C7 (as claimed): the returned value tells the decoder's three outcomes
\* apart.  The successful decode of the empty string returns the count 0,
\* so no call that returns 0 is an OddLength or an InvalidDigit failure.
C7_ValueTellsOutcome ==
    (Returned /\ ret = 0) => (retAt = 74 /\ strlen(dataset) = 0)

\* C7 (amended): the decoder returns 0 for the empty string, for every
\* odd-length string and for every even-length string with an invalid
\* character; only a successful decode of a nonempty string returns
\* something else, a count of at least 1.
C7_FailuresAndEmptyReturnZero ==
    Returned =>
        /\ ~EvenLen(dataset) => (retAt = 61 /\ ret = 0)
        /\ (EvenLen(dataset) /\ ~AllHex(dataset)) => (retAt = 69 /\ ret = 0)
        /\ (EvenLen(dataset) /\ AllHex(dataset)) => retAt = 74
        /\ strlen(dataset) = 0 => ret = 0
        /\ (retAt = 74 /\ strlen(dataset) > 0) => ret >= 1

\* The empty string decoded with success: count 0.
C7_Witness ==
    /\ retAt = 74
    /\ strlen(dataset) = 0
    /\ ret = 0

\* C8: for an even-length string s of hex digits, the decoded bytes written
\* back as lowercase hex are lowercase(s) and as uppercase hex uppercase(s)
\* (so strings differing only in letter case decode to the same bytes).
C8_CaseInsensitiveRoundTrip ==
    (Returned /\ EvenLen(dataset) /\ AllHex(dataset) /\ BufferFits(dataset)) =>
        /\ 2 * ret = strlen(dataset)
        /\ \A k \in 0..(ret - 1) :
              /\ k \in DOMAIN mTlvs
              /\ LowerDigit(mTlvs[k] \div 16) = ToLower(CharAt(dataset, 2 * k))
              /\ LowerDigit(mTlvs[k] % 16) = ToLower(CharAt(dataset, 2 * k + 1))
              /\ UpperDigit(mTlvs[k] \div 16) = ToUpper(CharAt(dataset, 2 * k))
              /\ UpperDigit(mTlvs[k] % 16) = ToUpper(CharAt(dataset, 2 * k + 1))

\* "aF" and "Fa" decoded.
C8_Witness ==
    /\ retAt = 74
    /\ dataset \in {Str(<<97, 70>>), Str(<<70, 97>>)}
    /\ ret = 1

\* C9: the decoder reads hex_string only at indices below strlen and writes
\* buf only at indices below strlen/2, on every input.
C9_ReadsAndWritesInBounds ==
    /\ hiRead < strlen(dataset)
    /\ hiWrite < strlen(dataset) \div 2

\* A string of four digits read up to its last character.
C9_Witness ==
    /\ strlen(dataset) = 4
    /\ hiRead = 3
    /\ hiWrite = 1

\* C10 (as claimed): "4f70656e5468726561642d616631360102" decodes to
\* 4F 70 65 6E 54 68 72 65 61 64 2D 61 66 31 36 01 02 with returned length 18.
C10_NetworkNameLength18 ==
    (Returned /\ dataset = Str(NetworkNameHex)) =>
        /\ ret = 18
        /\ \A k \in 0..16 : k \in DOMAIN mTlvs /\ mTlvs[k] = NetworkNameBytes[k + 1]

\* C10 (amended): the same string decodes to those 17 bytes and the
\* returned length is 17.
C10_NetworkNameLength17 ==
    (Returned /\ dataset = Str(NetworkNameHex)) =>
        /\ retAt = 74
        /\ ret = 17
        /\ DOMAIN mTlvs = 0..16
        /\ \A k \in 0..16 : mTlvs[k] = NetworkNameBytes[k + 1]

C10_Witness ==
    /\ retAt = 74
    /\ dataset = Str(NetworkNameHex)
    /\ mTlvs[16] = 2

====
